---- MODULE Spec2Model ----
(***************************************************************************)
(* A model of ai-c-test-generator: the test validator (validator.py), the  *)
(* generation orchestrator (generator.py) and the generate command         *)
(* (cli.py).  Each component has its own specification over the shared     *)
(* variables; the variables of the other components stay idle.             *)
(***************************************************************************)
EXTENDS Integers, Sequences, FiniteSets, TLC

VARIABLES
    validation_result,  \* validator.py: the dict built by validate_test_file
    vpc,                \* validator.py: position inside validate_test_file
    test_functions,     \* validator.py: definitions found in the test file
    file_path,          \* generator.py: the file given to generate_tests_for_file
    dependency_map,     \* generator.py: function name -> defining file
    analysis,           \* generator.py: functions and called_functions of the file
    functions_that_need_stubs,
    called_left,        \* generator.py: what the loop of line 129 has yet to visit
    spc,                \* generator.py: position inside the stub classification
    current_model_name, \* generator.py: self.current_model_name
    model,              \* generator.py: self.model, named by the backend it talks to
    opc,                \* generator.py: position of the orchestrator
    target_file,        \* generator.py: file_path of the request in progress
    attempt,            \* generator.py: loop variable of line 49
    fallback_idx,       \* generator.py: position of the loop of line 78
    original_model,     \* generator.py: line 77
    last_error,         \* generator.py: lines 46 and 55
    raised,             \* generator.py: what _try_generate_with_fallback raised
    gen_result,         \* generator.py: what generate_tests_for_file returned
    test_files,         \* the output paths that hold a complete test file
    calls,              \* history: the backends called in this request, in order
    last_call_error,    \* history: the error of the latest backend call
    sleeps,             \* history: the waits of this request, in order
    tried,              \* history: the fallback backends tried in this request
    switched_to,        \* history: the latest fallback backend that succeeded
    wrote,              \* history: what this request did to its output file
    repo_exists,        \* cli.py: os.path.exists(args.repo_path)
    source_exists,      \* cli.py: os.path.exists(source_path)
    tree,               \* cli.py: the files os.walk(source_path) yields, in order
    api_key_arg,        \* cli.py: args.api_key, "" when not given
    env_key,            \* cli.py: os.getenv('GEMINI_API_KEY'), "" when unset
    cpc,                \* cli.py: position inside handle_generate
    exit_status,        \* cli.py: what handle_generate returned, -1 before
    c_files,            \* cli.py: line 148
    file_idx,           \* cli.py: position of the loop of line 165
    successful_generations,
    validation_reports, \* cli.py: line 163
    report_files,       \* the report files saved under verification_report
    output_dir_made,    \* history: os.makedirs(output_dir) was called
    generator_built,    \* history: SmartTestGenerator(api_key) was called
    backend_called,     \* history: a backend was asked to generate
    processed,          \* history: the files given to generate_tests_for_file
    generated,          \* history: how many of them returned success
    failed,             \* history: how many of them did not
    raw_text,           \* generator.py: response.text given to the post-processing
    test_code,          \* generator.py: the text inside _post_process_test_code
    source_includes,    \* generator.py: the includes of the source file
    ppc,                \* generator.py: position inside _post_process_test_code
    first_output,       \* history: what the first post-processing returned
    all_c_files,        \* generator.py: line 106, each file with its functions
    building_map,       \* generator.py: the dependency_map of line 108
    scan_idx,           \* generator.py: position of the loop of line 110
    mpc,                \* generator.py: position inside build_dependency_map
    repo_c_files,       \* navigator.py: the .c files of the repository, in
                        \* the order of _find_all_c_files, with what
                        \* _extract_functions returns for each
    function_cache,     \* navigator.py: line 19
    file_cache,         \* navigator.py: line 20
    function_name,      \* navigator.py: argument of the last lookup
    nav_path,           \* navigator.py: argument of the last file request
    nav_result,         \* navigator.py: what the last call returned
    nav_scanned,        \* navigator.py: the last call ran _find_all_c_files
    npc                 \* navigator.py: how the last call ended

validatorVars == <<validation_result, vpc, test_functions>>

stubVars == <<file_path, dependency_map, analysis, functions_that_need_stubs,
              called_left, spc>>

orchVars == <<current_model_name, model, opc, target_file, attempt,
              fallback_idx, original_model, last_error, raised, gen_result,
              test_files, calls, last_call_error, sleeps, tried, switched_to,
              wrote>>

cliVars == <<repo_exists, source_exists, tree, api_key_arg, env_key, cpc,
             exit_status, c_files, file_idx, successful_generations,
             validation_reports, report_files, output_dir_made,
             generator_built, backend_called, processed, generated, failed>>

postVars == <<raw_text, test_code, source_includes, ppc, first_output>>

mapVars == <<all_c_files, building_map, scan_idx, mpc>>

navVars == <<repo_c_files, function_cache, file_cache, function_name,
             nav_path, nav_result, nav_scanned, npc>>

vars == <<validatorVars, stubVars, orchVars, cliVars, postVars, mapVars,
          navVars>>

\* the components at rest
IdleValidator ==
    /\ validation_result = <<>>
    /\ vpc = "idle"
    /\ test_functions = <<>>

IdleStubs ==
    /\ file_path = "None"
    /\ dependency_map = <<>>
    /\ analysis = <<>>
    /\ functions_that_need_stubs = <<>>
    /\ called_left = <<>>
    /\ spc = "idle"

IdlePost ==
    /\ raw_text = <<>>
    /\ test_code = <<>>
    /\ source_includes = {}
    /\ ppc = "idle"
    /\ first_output = <<>>

IdleMap ==
    /\ all_c_files = <<>>
    /\ building_map = <<>>
    /\ scan_idx = 1
    /\ mpc = "idle"

IdleNav ==
    /\ repo_c_files = <<>>
    /\ function_cache = <<>>
    /\ file_cache = <<>>
    /\ function_name = "None"
    /\ nav_path = "None"
    /\ nav_result = <<>>
    /\ nav_scanned = FALSE
    /\ npc = "idle"

\* a request that has not started: the locals of generate_tests_for_file and
\* of _try_generate_with_fallback, and the history of the request
NoError == <<>>

NoResult == [success |-> FALSE, test_file |-> "", error |-> NoError]

FreshRequest(tf, at, fi, om, le, ra, re, ca, lc, sl, tr, wr) ==
    /\ tf = "None"
    /\ at = 0
    /\ fi = 0
    /\ om = "None"
    /\ le = NoError
    /\ ra = NoError
    /\ re = NoResult
    /\ ca = <<>>
    /\ lc = NoError
    /\ sl = <<>>
    /\ tr = <<>>
    /\ wr = "no"

IdleOrch ==
    /\ current_model_name = "None"
    /\ model = "None"
    /\ opc = "idle"
    /\ test_files = {}
    /\ switched_to = "None"
    /\ FreshRequest(target_file, attempt, fallback_idx, original_model,
                    last_error, raised, gen_result, calls, last_call_error,
                    sleeps, tried, wrote)

\* handle_generate before its first statement
FreshRun ==
    /\ cpc = "idle"
    /\ exit_status = -1
    /\ c_files = <<>>
    /\ file_idx = 1
    /\ successful_generations = 0
    /\ validation_reports = <<>>
    /\ report_files = {}
    /\ output_dir_made = FALSE
    /\ generator_built = FALSE
    /\ backend_called = FALSE
    /\ processed = <<>>
    /\ generated = 0
    /\ failed = 0

IdleCli ==
    /\ repo_exists = FALSE
    /\ source_exists = FALSE
    /\ tree = <<>>
    /\ api_key_arg = ""
    /\ env_key = ""
    /\ FreshRun

(***************************************************************************)
(* Bounds of the model.                                                    *)
(***************************************************************************)
MaxIssues == 3        \* longest issue list handed to the rating function
MaxDefs == 2          \* function definitions in a generated test file
MaxLines == 1         \* lines matching an impossible-value pattern
MaxSections == 2      \* test sections split off by the consistency check
MaxCalled == 3        \* called_functions of one analysed file
MaxTree == 2          \* files under the source directory

(***************************************************************************)
(* Helpers on sequences.                                                   *)
(***************************************************************************)
SeqsUpTo(S, n) == UNION {[1..k -> S] : k \in 0..n}

Range(s) == {s[k] : k \in 1..Len(s)}

\* "sub in s" of Python for token sequences: sub occurs contiguously in s
Contains(s, sub) ==
    \E off \in 0..(Len(s) - Len(sub)) :
        \A k \in 1..Len(sub) : s[off + k] = sub[k]

\* n copies of x appended to s
RECURSIVE AppendN(_, _, _)
AppendN(s, x, n) == IF n = 0 THEN s ELSE AppendN(Append(s, x), x, n - 1)

(***************************************************************************)
(* validator.py                                                            *)
(***************************************************************************)

\* _calculate_quality_rating with the compiles test dropped from Medium
_calculate_quality_rating_nocompile(result) ==
    LET issues == Len(result.issues) IN
    IF issues = 0 /\ result.compiles /\ result.realistic THEN "High"
    ELSE IF issues <= 2 THEN "Medium"
    ELSE "Low"

\* _calculate_quality_rating with the realistic test dropped from High
_calculate_quality_rating_norealistic(result) ==
    LET issues == Len(result.issues) IN
    IF issues = 0 /\ result.compiles THEN "High"
    ELSE IF issues <= 2 /\ result.compiles THEN "Medium"
    ELSE "Low"

_calculate_quality_rating(result) ==
    LET issues == Len(result.issues) IN
    IF issues = 0 /\ result.compiles /\ result.realistic THEN "High"
    ELSE IF issues <= 2 /\ result.compiles THEN "Medium"
    ELSE "Low"

\* Function names are token sequences, so that "'test_' in name",
\* name.startswith('test_') and the edge-case indicators are computed.
SourceFunctions == << [name |-> <<"read_temp">>, return_type |-> "float"] >>

TestDefs ==
    { [name |-> <<"test_", "read_temp">>, return_type |-> "void"],
      [name |-> <<"test_", "read_temp", "min">>, return_type |-> "void"],
      [name |-> <<"read_temp">>, return_type |-> "int"] }

EdgeCaseIndicators ==
    {"min", "max", "zero", "negative", "boundary", "edge", "limit"}

\* the issue strings, shortened
IssueTags == {"markdown", "unity", "invalid_include", "mismatch",
              "duplicate", "main_call", "precision", "impossible",
              "temperature", "edge_cases", "teardown_reset", "no_tests",
              "isolation", "contradiction", "unreasonable",
              "validation_error"}

\* the flag is set to false and no issue is recorded
Flag_silent(r, cond, tag, flag) ==
    IF cond THEN [r EXCEPT ![flag] = FALSE] ELSE r

\* the flag follows the latest condition: it is set again when cond fails
Flag_follows(r, cond, tag, flag) ==
    IF cond
    THEN [r EXCEPT !.issues = Append(@, tag), ![flag] = FALSE]
    ELSE [r EXCEPT ![flag] = TRUE]

\* result['issues'].append(tag) when cond holds, with the flag flipped
Flag(r, cond, tag, flag) ==
    IF cond
    THEN [r EXCEPT !.issues = Append(@, tag), ![flag] = FALSE]
    ELSE r

\* a finding of the later checks marks the file unrealistic as well
Note_unrealistic(r, cond, tag) ==
    IF cond
    THEN [r EXCEPT !.issues = Append(@, tag), !.realistic = FALSE]
    ELSE r

Note(r, cond, tag) ==
    IF cond THEN [r EXCEPT !.issues = Append(@, tag)] ELSE r

\* next((f for f in source_functions if f['name'] == func_name), None):
\* the indices of the source functions of that name, the first one taken
SourceHits(func_name) ==
    {k \in 1..Len(SourceFunctions) : SourceFunctions[k].name = func_name}

SourceMatch(func_name) ==
    SourceFunctions[CHOOSE k \in SourceHits(func_name) :
                        \A j \in SourceHits(func_name) : k <= j]

\* the number of issues the signature loop appends: one per test_ function
\* of the file and per definition whose return type differs from the source
MismatchCount(defs) ==
    LET tests == {k \in 1..Len(defs) : Contains(defs[k].name, <<"test_">>)}
        bad == {k \in 1..Len(defs) :
                    /\ SourceHits(defs[k].name) # {}
                    /\ SourceMatch(defs[k].name).return_type
                           # defs[k].return_type}
    IN Cardinality(tests) * Cardinality(bad)

HasDuplicates(defs) ==
    \E j, k \in 1..Len(defs) : j # k /\ defs[j].name = defs[k].name

\* _check_compilation_safety; c holds what the patterns find in the text
_check_compilation_safety(r, defs, c) ==
    LET r1 == Flag(r, c.fence, "markdown", "compiles")
        r2 == Flag(r1, ~c.unity, "unity", "compiles")
        r3 == Flag(r2, c.invalid_includes, "invalid_include", "compiles")
        n == MismatchCount(defs)
        r4 == IF n = 0 THEN r3
              ELSE [r3 EXCEPT !.issues = AppendN(@, "mismatch", n),
                              !.compiles = FALSE]
        r5 == Flag(r4, HasDuplicates(defs), "duplicate", "compiles")
    IN Flag(r5, c.main_call /\ ~c.extern_main, "main_call", "compiles")

CompileFindings ==
    [fence : BOOLEAN, unity : BOOLEAN, invalid_includes : BOOLEAN,
     main_call : BOOLEAN, extern_main : BOOLEAN]

\* _check_reality_tests; a float_equal call is also a mention of the macro
_check_reality_tests(r, c) ==
    LET r1 == Flag(r, c.equal_float # "none", "precision", "realistic")
        r2 == IF c.impossible = 0 THEN r1
              ELSE [r1 EXCEPT !.issues = AppendN(@, "impossible", c.impossible),
                              !.realistic = FALSE]
        r3 == Flag(r2, c.equal_float = "call" /\ ~c.float_within,
                   "precision", "realistic")
    IN Flag(r3, c.temperature, "temperature", "realistic")

RealityFindings ==
    [equal_float : {"none", "mention", "call"}, float_within : BOOLEAN,
     impossible : 0..MaxLines, temperature : BOOLEAN]

\* _assess_test_quality
_assess_test_quality(r, defs, c) ==
    LET test_names == SelectSeq(defs, LAMBDA f : f.name[1] = "test_")
        has_edge_cases ==
            \E k \in 1..Len(test_names) :
                Range(test_names[k].name) \cap EdgeCaseIndicators # {}
        isolated == c.has_setup /\ c.has_teardown
        r1 == Note(r, ~has_edge_cases /\ Len(test_names) > 1, "edge_cases")
        r2 == Note(r1, isolated /\ c.stub_variables /\ ~c.has_reset,
                   "teardown_reset")
        r3 == Note(r2, Len(test_names) = 0, "no_tests")
    IN Note(r3, ~isolated /\ Len(test_names) > 1, "isolation")

QualityFindings ==
    [has_setup : BOOLEAN, has_teardown : BOOLEAN,
     stub_variables : BOOLEAN, has_reset : BOOLEAN]

\* _verify_logical_consistency: one issue per section with a common subject,
\* then one per unreasonable TEST_ASSERT_EQUAL
Exprs == {"flag_x"}

Sections == [true_vars : SUBSET Exprs, false_vars : SUBSET Exprs]

RECURSIVE SectionIssues(_, _)
SectionIssues(r, sections) ==
    IF sections = <<>> THEN r
    ELSE LET s == Head(sections) IN
         SectionIssues(
             Note(r, s.true_vars # {} /\ s.false_vars # {}
                        /\ s.true_vars \cap s.false_vars # {},
                  "contradiction"),
             Tail(sections))

\* the assertions of the whole file are compared, whatever their section
_verify_logical_consistency_whole_file(r, sections, unreasonable) ==
    Note(Note(r, (UNION {sections[k].true_vars : k \in 1..Len(sections)})
                    \cap (UNION {sections[k].false_vars :
                                    k \in 1..Len(sections)}) # {},
              "contradiction"),
         unreasonable, "unreasonable")

_verify_logical_consistency(r, sections, unreasonable) ==
    Note(SectionIssues(r, sections), unreasonable, "unreasonable")

\* validate_test_file, lines 23-32: the fresh result
FreshResult ==
    [compiles |-> TRUE, realistic |-> TRUE, quality |-> "High",
     issues |-> <<>>]

\* lines 36-43: both files are read and the source is analysed
VRead ==
    /\ vpc = "read"
    /\ vpc' = "compile"
    /\ UNCHANGED <<validation_result, test_functions, stubVars, orchVars,
                   cliVars, postVars, mapVars, navVars>>

VCompile ==
    /\ vpc = "compile"
    /\ \E c \in CompileFindings :
           validation_result' =
               _check_compilation_safety(validation_result, test_functions, c)
    /\ vpc' = "reality"
    /\ UNCHANGED <<test_functions, stubVars, orchVars, cliVars, postVars, mapVars, navVars>>

VReality ==
    /\ vpc = "reality"
    /\ \E c \in RealityFindings :
           validation_result' = _check_reality_tests(validation_result, c)
    /\ vpc' = "quality"
    /\ UNCHANGED <<test_functions, stubVars, orchVars, cliVars, postVars, mapVars, navVars>>

VQuality ==
    /\ vpc = "quality"
    /\ \E c \in QualityFindings :
           validation_result' =
               _assess_test_quality(validation_result, test_functions, c)
    /\ vpc' = "logic"
    /\ UNCHANGED <<test_functions, stubVars, orchVars, cliVars, postVars, mapVars, navVars>>

VLogic ==
    /\ vpc = "logic"
    /\ \E sections \in SeqsUpTo(Sections, MaxSections), u \in BOOLEAN :
           validation_result' =
               _verify_logical_consistency(validation_result, sections, u)
    /\ vpc' = "rate"
    /\ UNCHANGED <<test_functions, stubVars, orchVars, cliVars, postVars, mapVars, navVars>>

\* line 58
VRate ==
    /\ vpc = "rate"
    /\ validation_result' =
           [validation_result EXCEPT
               !.quality = _calculate_quality_rating(validation_result)]
    /\ vpc' = "done"
    /\ UNCHANGED <<test_functions, stubVars, orchVars, cliVars, postVars, mapVars, navVars>>

\* the handler records the exception and leaves the rating as it was
VExcept_keeps_quality ==
    /\ vpc \in {"read", "compile", "reality", "quality", "logic"}
    /\ validation_result' =
           [validation_result EXCEPT
               !.issues = Append(@, "validation_error"),
               !.compiles = FALSE]
    /\ vpc' = "done"
    /\ UNCHANGED <<test_functions, stubVars, orchVars, cliVars, postVars, mapVars, navVars>>

\* lines 60-63: an exception raised anywhere inside the try block
VExcept ==
    /\ vpc \in {"read", "compile", "reality", "quality", "logic"}
    /\ validation_result' =
           [validation_result EXCEPT
               !.issues = Append(@, "validation_error"),
               !.compiles = FALSE,
               !.quality = "Low"]
    /\ vpc' = "done"
    /\ UNCHANGED <<test_functions, stubVars, orchVars, cliVars, postVars, mapVars, navVars>>

InitValidate ==
    /\ validation_result = FreshResult
    /\ vpc = "read"
    /\ test_functions \in SeqsUpTo(TestDefs, MaxDefs)
    /\ IdleStubs
    /\ IdleOrch
    /\ IdleCli
    /\ IdlePost
    /\ IdleMap
    /\ IdleNav

NextValidate ==
    VRead \/ VCompile \/ VReality \/ VQuality \/ VLogic \/ VRate \/ VExcept

SpecValidate == InitValidate /\ [][NextValidate]_vars

\* The rating function on its own: every result dict up to MaxIssues issues
InitRating ==
    /\ validation_result \in
           [compiles : BOOLEAN, realistic : BOOLEAN, quality : {"High"},
            issues : SeqsUpTo({"precision", "no_tests"}, MaxIssues)]
    /\ vpc = "rate"
    /\ test_functions = <<>>
    /\ IdleStubs
    /\ IdleOrch
    /\ IdleCli
    /\ IdlePost
    /\ IdleMap
    /\ IdleNav

NextRating == VRate

SpecRating == InitRating /\ [][NextRating]_vars

(***************************************************************************)
(* generator.py: the stub classification of generate_tests_for_file.       *)
(* The analysis comes from analyzer.py: the functions defined in the file  *)
(* and its called_functions, a set of names visited in some order.         *)
(***************************************************************************)
Names == {"read_temp", "adc_read", "filter", "log_value"}

Files == {"sensor.c", "adc.c"}

\* the sequences over S without repetition, up to length n
DistinctSeqs(S, n) ==
    {q \in SeqsUpTo(S, n) : \A j, k \in 1..Len(q) : j # k => q[j] # q[k]}

DependencyMaps == UNION {[D -> Files] : D \in SUBSET Names}

\* the test of lines 131-133 without its last conjunct
NeedsStub_anyfile(called_func, implemented_functions, dep_map, path) ==
    /\ called_func \notin implemented_functions
    /\ called_func \in DOMAIN dep_map

\* lines 131-133
NeedsStub(called_func, implemented_functions, dep_map, path) ==
    /\ called_func \notin implemented_functions
    /\ called_func \in DOMAIN dep_map
    /\ dep_map[called_func] # path

\* line 127
ImplementedFunctions == Range(analysis.functions)

\* one turn of the loop of line 129
ClassifyCalled ==
    /\ spc = "classify"
    /\ called_left # <<>>
    /\ functions_that_need_stubs' =
           IF NeedsStub(Head(called_left), ImplementedFunctions,
                        dependency_map, file_path)
           THEN Append(functions_that_need_stubs, Head(called_left))
           ELSE functions_that_need_stubs
    /\ called_left' = Tail(called_left)
    /\ UNCHANGED <<file_path, dependency_map, analysis, spc, validatorVars,
                   orchVars, cliVars, postVars, mapVars, navVars>>

\* the loop is over: line 136
ClassifyDone ==
    /\ spc = "classify"
    /\ called_left = <<>>
    /\ spc' = "classified"
    /\ UNCHANGED <<file_path, dependency_map, analysis,
                   functions_that_need_stubs, called_left, validatorVars,
                   orchVars, cliVars, postVars, mapVars, navVars>>

InitStubs ==
    /\ file_path \in Files
    /\ dependency_map \in DependencyMaps
    /\ analysis \in [functions : DistinctSeqs(Names, 2),
                      called_functions : DistinctSeqs(Names, MaxCalled)]
    /\ functions_that_need_stubs = <<>>
    /\ called_left = analysis.called_functions
    /\ spc = "classify"
    /\ IdleValidator
    /\ IdleOrch
    /\ IdleCli
    /\ IdlePost
    /\ IdleMap
    /\ IdleNav

NextStubs == ClassifyCalled \/ ClassifyDone

SpecStubs == InitStubs /\ [][NextStubs]_vars

(***************************************************************************)
(* generator.py: the orchestrator.  One SmartTestGenerator is constructed  *)
(* and then serves generate_tests_for_file requests one after the other.   *)
(***************************************************************************)

\* line 23
models_to_try ==
    <<"gemini-2.5-flash", "gemini-2.5-pro", "gemini-2.0-flash",
      "gemini-1.5-flash", "gemini-1.5-pro", "gemini-pro">>

\* line 44
max_retries == 3

\* Error messages are token sequences, so that str(e).lower() and the
\* keyword search of lines 54-61 are computed.
ErrorMessages ==
    { <<"429">>, <<"Quota", "exceeded">>,
      <<"500", "internal">>, <<"Rate", "exceeded">> }

LowerToken(t) ==
    CASE t = "Quota" -> "quota"
      [] t = "Rate" -> "rate"
      [] OTHER -> t

\* str(e).lower()
Lower(e) == [k \in 1..Len(e) |-> LowerToken(e[k])]

\* lines 58-61
RateLimitKeywords ==
    { <<"rate", "limit">>, <<"quota">>, <<"limit", "exceeded">>,
      <<"resource", "exhausted">>, <<"429">>, <<"too", "many", "requests">> }

\* every error taken for a rate limit
is_rate_limit_always(e) == TRUE

is_rate_limit(e) == \E keyword \in RateLimitKeywords : Contains(Lower(e), keyword)

\* line 64
wait_time(a) == (2 ^ a) + 1

\* _initialize_model: the first name of the list whose backend can be made
_initialize_model(available) ==
    LET hits == {k \in 1..Len(models_to_try) : models_to_try[k] \in available}
    IN IF hits = {} THEN "None"
       ELSE models_to_try[CHOOSE k \in hits : \A j \in hits : k <= j]

\* __init__, lines 19-27 and 29-42: with no backend the constructor raises
Construct ==
    /\ opc = "new"
    /\ \E available \in SUBSET Range(models_to_try) :
           /\ model' = _initialize_model(available)
           /\ current_model_name' = _initialize_model(available)
           /\ opc' = IF _initialize_model(available) = "None"
                     THEN "no_model" ELSE "ready"
    /\ UNCHANGED <<target_file, attempt, fallback_idx, original_model,
                   last_error, raised, gen_result, test_files, calls,
                   last_call_error, sleeps, tried, switched_to, wrote,
                   validatorVars, stubVars, cliVars, postVars, mapVars, navVars>>

\* test_<basename> under the output directory, lines 150-151
OutputPath(f) ==
    CASE f = "sensor.c" -> "test_sensor.c"
      [] f = "adc.c" -> "test_adc.c"
      [] f = "sensor.h" -> "test_sensor.h"
      [] f = "Makefile" -> "test_Makefile"

\* generate_tests_for_file, lines 118-139: the analysis and the prompt are
\* outside the try block, so what they raise leaves the function
StartRequest ==
    /\ opc \in {"ready", "returned", "propagated"}
    /\ \E f \in Files, analysed \in BOOLEAN :
           /\ target_file' = f
           /\ opc' = IF analysed THEN "attempt" ELSE "propagated"
    /\ FreshRequest("None", attempt', fallback_idx', original_model',
                    last_error', raised', gen_result', calls',
                    last_call_error', sleeps', tried', wrote')
    /\ UNCHANGED <<current_model_name, model, test_files, switched_to,
                   validatorVars, stubVars, cliVars, postVars, mapVars, navVars>>

\* lines 49-52: the current backend answers
AttemptSucceeds ==
    /\ opc = "attempt"
    /\ calls' = Append(calls, model)
    /\ last_call_error' = NoError
    /\ opc' = "responded"
    /\ UNCHANGED <<current_model_name, model, target_file, attempt,
                   fallback_idx, original_model, last_error, raised,
                   gen_result, test_files, sleeps, tried, switched_to, wrote,
                   validatorVars, stubVars, cliVars, postVars, mapVars, navVars>>

\* lines 53-74: the current backend raises e
AttemptFails ==
    /\ opc = "attempt"
    /\ \E e \in ErrorMessages :
           /\ calls' = Append(calls, model)
           /\ last_call_error' = e
           /\ last_error' = e
           /\ IF is_rate_limit(e) /\ attempt < max_retries - 1
              THEN /\ sleeps' = Append(sleeps, wait_time(attempt))
                   /\ attempt' = attempt + 1
                   /\ UNCHANGED <<opc, original_model, fallback_idx, raised>>
              ELSE IF is_rate_limit(e)
              THEN /\ opc' = "fallback"
                   /\ original_model' = current_model_name
                   /\ fallback_idx' = 1
                   /\ UNCHANGED <<sleeps, attempt, raised>>
              ELSE /\ raised' = e
                   /\ opc' = "raised"
                   /\ UNCHANGED <<sleeps, attempt, original_model,
                                  fallback_idx>>
    /\ UNCHANGED <<current_model_name, model, target_file, gen_result,
                   test_files, tried, switched_to, wrote,
                   validatorVars, stubVars, cliVars, postVars, mapVars, navVars>>

\* only the head of the list is skipped, whichever backend just failed
SkipsModel_first(model_name, original) == model_name = models_to_try[1]

\* the fallback loop visits every name, the failed one too
SkipsModel_never(model_name, original) == FALSE

\* lines 79-80
SkipsModel(model_name, original) == model_name = original

InFallback ==
    /\ opc = "fallback"
    /\ fallback_idx <= Len(models_to_try)

\* lines 79-80: the model that just failed is skipped
FallbackSkip ==
    /\ InFallback
    /\ SkipsModel(models_to_try[fallback_idx], original_model)
    /\ fallback_idx' = fallback_idx + 1
    /\ UNCHANGED <<current_model_name, model, opc, target_file, attempt,
                   original_model, last_error, raised, gen_result,
                   test_files, calls, last_call_error, sleeps, tried,
                   switched_to, wrote, validatorVars, stubVars, cliVars, postVars, mapVars, navVars>>

\* lines 84 and 93-95: the fallback backend cannot be made
FallbackUnavailable ==
    /\ InFallback
    /\ ~SkipsModel(models_to_try[fallback_idx], original_model)
    /\ tried' = Append(tried, models_to_try[fallback_idx])
    /\ fallback_idx' = fallback_idx + 1
    /\ UNCHANGED <<current_model_name, model, opc, target_file, attempt,
                   original_model, last_error, raised, gen_result,
                   test_files, calls, last_call_error, sleeps,
                   switched_to, wrote, validatorVars, stubVars, cliVars, postVars, mapVars, navVars>>

\* the failing fallback backend is installed before it is called
FailedFallbackModel_installed(fallback_model) == fallback_model

\* lines 84-85: fallback_model is a local; self.model keeps its value when
\* the call on it raises
FailedFallbackModel(fallback_model) == model

\* lines 85 and 93-95: the fallback backend raises e, which is only printed
FallbackFails ==
    /\ InFallback
    /\ ~SkipsModel(models_to_try[fallback_idx], original_model)
    /\ \E e \in ErrorMessages : last_call_error' = e
    /\ tried' = Append(tried, models_to_try[fallback_idx])
    /\ calls' = Append(calls, models_to_try[fallback_idx])
    /\ fallback_idx' = fallback_idx + 1
    /\ model' = FailedFallbackModel(models_to_try[fallback_idx])
    /\ UNCHANGED <<current_model_name, opc, target_file, attempt,
                   original_model, last_error, raised, gen_result,
                   test_files, sleeps, switched_to, wrote,
                   validatorVars, stubVars, cliVars, postVars, mapVars, navVars>>

\* the switch installs the first backend of the list, whatever answered
SwitchedModel_head(fallback_model) == models_to_try[1]

\* the name is switched and self.model is left as it was
SwitchedModel_stale(fallback_model) == model

\* line 88
SwitchedModel(fallback_model) == fallback_model

\* lines 85-91: the fallback backend answers and becomes the current one
FallbackSucceeds ==
    /\ InFallback
    /\ ~SkipsModel(models_to_try[fallback_idx], original_model)
    /\ tried' = Append(tried, models_to_try[fallback_idx])
    /\ calls' = Append(calls, models_to_try[fallback_idx])
    /\ last_call_error' = NoError
    /\ model' = SwitchedModel(models_to_try[fallback_idx])
    /\ current_model_name' = models_to_try[fallback_idx]
    /\ switched_to' = models_to_try[fallback_idx]
    /\ opc' = "responded"
    /\ UNCHANGED <<target_file, attempt, fallback_idx, original_model,
                   last_error, raised, gen_result, test_files, sleeps, wrote,
                   validatorVars, stubVars, cliVars, postVars, mapVars, navVars>>

\* lines 97-98: every name was visited
FallbackExhausted ==
    /\ opc = "fallback"
    /\ fallback_idx > Len(models_to_try)
    /\ raised' = IF last_error # NoError THEN last_error
                  ELSE <<"All", "models", "failed">>
    /\ opc' = "raised"
    /\ UNCHANGED <<current_model_name, model, target_file, attempt,
                   fallback_idx, original_model, last_error, gen_result,
                   test_files, calls, last_call_error, sleeps, tried,
                   switched_to, wrote, validatorVars, stubVars, cliVars, postVars, mapVars, navVars>>

\* the exception is swallowed and success reported
FailureResult_success(e) ==
    [success |-> TRUE, test_file |-> "", error |-> e]

\* line 160
FailureResult(e) == [success |-> FALSE, test_file |-> "", error |-> e]

\* lines 144-157: the text is post-processed and saved
SaveTestFile ==
    /\ opc = "responded"
    /\ test_files' = test_files \cup {OutputPath(target_file)}
    /\ wrote' = "complete"
    /\ gen_result' = [success |-> TRUE, test_file |-> OutputPath(target_file),
                       error |-> NoError]
    /\ opc' = "returned"
    /\ UNCHANGED <<current_model_name, model, target_file, attempt,
                   fallback_idx, original_model, last_error, raised, calls,
                   last_call_error, sleeps, tried, switched_to,
                   validatorVars, stubVars, cliVars, postVars, mapVars, navVars>>

\* lines 144-155 and 159-160: response.text, makedirs, open or write raises;
\* when write raises the file is already open, that is cut to nothing
SaveFails ==
    /\ opc = "responded"
    /\ \E opened \in BOOLEAN :
           /\ wrote' = IF opened THEN "truncated" ELSE "no"
           /\ test_files' = IF opened
                             THEN test_files \ {OutputPath(target_file)}
                             ELSE test_files
    /\ gen_result' = FailureResult(<<"save", "failed">>)
    /\ opc' = "returned"
    /\ UNCHANGED <<current_model_name, model, target_file, attempt,
                   fallback_idx, original_model, last_error, raised, calls,
                   last_call_error, sleeps, tried, switched_to,
                   validatorVars, stubVars, cliVars, postVars, mapVars, navVars>>

\* lines 159-160: what the backend request raised becomes the result
RequestFailed ==
    /\ opc = "raised"
    /\ gen_result' = FailureResult(raised)
    /\ opc' = "returned"
    /\ UNCHANGED <<current_model_name, model, target_file, attempt,
                   fallback_idx, original_model, last_error, raised,
                   test_files, calls, last_call_error, sleeps, tried,
                   switched_to, wrote, validatorVars, stubVars, cliVars, postVars, mapVars, navVars>>

\* lines 24-25
InitOrch ==
    /\ current_model_name = "None"
    /\ model = "None"
    /\ opc = "new"
    /\ test_files = {}
    /\ switched_to = "None"
    /\ FreshRequest(target_file, attempt, fallback_idx, original_model,
                    last_error, raised, gen_result, calls, last_call_error,
                    sleeps, tried, wrote)
    /\ IdleValidator
    /\ IdleStubs
    /\ IdleCli
    /\ IdlePost
    /\ IdleMap
    /\ IdleNav

NextOrch ==
    \/ Construct
    \/ StartRequest
    \/ AttemptSucceeds
    \/ AttemptFails
    \/ FallbackSkip
    \/ FallbackUnavailable
    \/ FallbackFails
    \/ FallbackSucceeds
    \/ FallbackExhausted
    \/ SaveTestFile
    \/ SaveFails
    \/ RequestFailed

SpecOrch == InitOrch /\ [][NextOrch]_vars

(***************************************************************************)
(* cli.py: handle_generate.  generate_tests_for_file and validate_test_file *)
(* appear by what they hand back to the command: a result, an exception,   *)
(* the test file, the compiles flag of the report.  The interrupt signal   *)
(* of the user is not modelled.                                            *)
(***************************************************************************)
Dirs == {"src", "src/drivers"}

FileNames == {"sensor.c", "adc.c", "sensor.h", "Makefile"}

TreeFiles == [dir : Dirs, name : FileNames]

\* file.endswith('.c'), line 151
IsCFile(f) == f.name \in {"sensor.c", "adc.c"}

\* file.endswith(('.c', '.h')), line 316
IsCOrHFile(f) == f.name \in {"sensor.c", "adc.c", "sensor.h"}

\* validate_environment without the check of the API key
validate_environment_nokey(repo, source, files, arg, env) ==
    /\ repo
    /\ source
    /\ \E k \in 1..Len(files) : IsCOrHFile(files[k])

\* validate_environment, lines 298-331
validate_environment(repo, source, files, arg, env) ==
    /\ repo
    /\ source
    /\ \E k \in 1..Len(files) : IsCOrHFile(files[k])
    /\ (arg # "" \/ env # "")

\* lines 125-126
CliRejects ==
    /\ cpc = "start"
    /\ ~validate_environment(repo_exists, source_exists, tree,
                             api_key_arg, env_key)
    /\ exit_status' = 1
    /\ cpc' = "exited"
    /\ UNCHANGED <<repo_exists, source_exists, tree, api_key_arg, env_key,
                   c_files, file_idx, successful_generations,
                   validation_reports, report_files, output_dir_made,
                   generator_built, backend_called, processed, generated,
                   failed, test_files>>

\* lines 125-134
CliAccepts ==
    /\ cpc = "start"
    /\ validate_environment(repo_exists, source_exists, tree,
                            api_key_arg, env_key)
    /\ cpc' = "construct"
    /\ UNCHANGED <<repo_exists, source_exists, tree, api_key_arg, env_key,
                   exit_status, c_files, file_idx, successful_generations,
                   validation_reports, report_files, output_dir_made,
                   generator_built, backend_called, processed, generated,
                   failed, test_files>>

\* lines 138-163: the generator and the validator are made, the dependency
\* map is built, the .c files are collected and the output directory made
CliPrepare ==
    /\ cpc = "construct"
    /\ generator_built' = TRUE
    /\ c_files' = SelectSeq(tree, IsCFile)
    /\ output_dir_made' = TRUE
    /\ successful_generations' = 0
    /\ validation_reports' = <<>>
    /\ cpc' = "loop"
    /\ UNCHANGED <<repo_exists, source_exists, tree, api_key_arg, env_key,
                   exit_status, file_idx, report_files, backend_called,
                   processed, generated, failed, test_files>>

\* lines 138 and 229-234: SmartTestGenerator raises, generator.py:42
CliNoModel ==
    /\ cpc = "construct"
    /\ generator_built' = TRUE
    /\ exit_status' = 1
    /\ cpc' = "exited"
    /\ UNCHANGED <<repo_exists, source_exists, tree, api_key_arg, env_key,
                   c_files, file_idx, successful_generations,
                   validation_reports, report_files, output_dir_made,
                   backend_called, processed, generated, failed, test_files>>

InLoop == cpc = "loop" /\ file_idx <= Len(c_files)

\* lines 165-195: success, the test file is validated
FileGenerated ==
    /\ InLoop
    /\ successful_generations' = successful_generations + 1
    /\ test_files' = test_files \cup {OutputPath(c_files[file_idx].name)}
    /\ \E compiles \in BOOLEAN :
           validation_reports' =
               Append(validation_reports,
                      [file |-> OutputPath(c_files[file_idx].name),
                       compiles |-> compiles])
    /\ backend_called' = TRUE
    /\ processed' = Append(processed, c_files[file_idx])
    /\ generated' = generated + 1
    /\ file_idx' = file_idx + 1
    /\ UNCHANGED <<repo_exists, source_exists, tree, api_key_arg, env_key,
                   cpc, exit_status, c_files, report_files, output_dir_made,
                   generator_built, failed>>

\* lines 165-172 and 197-198: {success: False}; a write that failed has cut
\* the output file to nothing
FileFailed ==
    /\ InLoop
    /\ \E opened \in BOOLEAN :
           test_files' = IF opened
                         THEN test_files \ {OutputPath(c_files[file_idx].name)}
                         ELSE test_files
    /\ backend_called' = TRUE
    /\ processed' = Append(processed, c_files[file_idx])
    /\ failed' = failed + 1
    /\ file_idx' = file_idx + 1
    /\ UNCHANGED <<repo_exists, source_exists, tree, api_key_arg, env_key,
                   cpc, exit_status, c_files, successful_generations,
                   validation_reports, report_files, output_dir_made,
                   generator_built, generated>>

\* lines 165-172 and 200-201: generate_tests_for_file raises
FileRaised ==
    /\ InLoop
    /\ processed' = Append(processed, c_files[file_idx])
    /\ failed' = failed + 1
    /\ file_idx' = file_idx + 1
    /\ UNCHANGED <<repo_exists, source_exists, tree, api_key_arg, env_key,
                   cpc, exit_status, c_files, successful_generations,
                   validation_reports, report_files, output_dir_made,
                   generator_built, backend_called, generated, test_files>>

\* validator.py, lines 322-324
ReportName(report) == <<report.file, report.compiles>>

\* the run fails only when nothing was generated
ExitStatus_zero_only(successes, files) == IF successes = 0 THEN 1 ELSE 0

\* lines 218-236
ExitStatus(successes, files) ==
    IF successes = 0 THEN 1
    ELSE IF successes < files THEN 1
    ELSE 0

\* lines 203-236: the reports are saved and the status returned
CliFinish ==
    /\ cpc = "loop"
    /\ file_idx > Len(c_files)
    /\ report_files' = report_files \cup
           {ReportName(validation_reports[k]) :
                k \in 1..Len(validation_reports)}
    /\ exit_status' = ExitStatus(successful_generations, Len(c_files))
    /\ cpc' = "exited"
    /\ UNCHANGED <<repo_exists, source_exists, tree, api_key_arg, env_key,
                   c_files, file_idx, successful_generations,
                   validation_reports, output_dir_made, generator_built,
                   backend_called, processed, generated, failed, test_files>>

\* the arguments and the environment of one run
InitCli ==
    /\ repo_exists \in BOOLEAN
    /\ source_exists \in BOOLEAN
    /\ tree \in DistinctSeqs(TreeFiles, MaxTree)
    /\ ~repo_exists => ~source_exists
    /\ ~source_exists => tree = <<>>
    /\ api_key_arg \in {"", "key"}
    /\ env_key \in {"", "key"}
    /\ cpc = "start"
    /\ exit_status = -1
    /\ c_files = <<>>
    /\ file_idx = 1
    /\ successful_generations = 0
    /\ validation_reports = <<>>
    /\ report_files = {}
    /\ output_dir_made = FALSE
    /\ generator_built = FALSE
    /\ backend_called = FALSE
    /\ processed = <<>>
    /\ generated = 0
    /\ failed = 0
    /\ current_model_name = "None"
    /\ model = "None"
    /\ opc = "idle"
    /\ test_files = {}
    /\ switched_to = "None"
    /\ FreshRequest(target_file, attempt, fallback_idx, original_model,
                    last_error, raised, gen_result, calls, last_call_error,
                    sleeps, tried, wrote)
    /\ IdleValidator
    /\ IdleStubs
    /\ IdlePost
    /\ IdleMap
    /\ IdleNav

\* in a run of the command only test_files changes outside cliVars
CliFrame ==
    UNCHANGED <<current_model_name, model, opc, target_file, attempt,
                fallback_idx, original_model, last_error, raised, gen_result,
                calls, last_call_error, sleeps, tried, switched_to, wrote,
                validatorVars, stubVars, postVars, mapVars, navVars>>

NextCli ==
    \/ (CliRejects /\ CliFrame)
    \/ (CliAccepts /\ CliFrame)
    \/ (CliPrepare /\ CliFrame)
    \/ (CliNoModel /\ CliFrame)
    \/ (FileGenerated /\ CliFrame)
    \/ (FileFailed /\ CliFrame)
    \/ (FileRaised /\ CliFrame)
    \/ (CliFinish /\ CliFrame)

SpecCli == InitCli /\ [][NextCli]_vars

(***************************************************************************)
(* generator.py: _post_process_test_code.  A text is a sequence of tokens, *)
(* "NL" being the newline, the only white space that is kept; each regular *)
(* expression is computed on the tokens, leftmost match first, as re.sub   *)
(* does.                                                                   *)
(***************************************************************************)
NL == "NL"

\* the smallest position from i on that holds one of the tokens, 0 if none
FirstAt(t, i, toks) ==
    LET hits == {k \in i..Len(t) : t[k] \in toks}
    IN IF hits = {} THEN 0 ELSE CHOOSE k \in hits : \A j \in hits : k <= j

\* \s* from position i: the position after the newlines that start there
SkipWs(t, i) ==
    LET rest == {k \in i..Len(t) : t[k] # NL}
    IN IF rest = {} THEN Len(t) + 1
       ELSE CHOOSE k \in rest : \A j \in rest : k <= j

\* t[i] where it exists
At(t, i) == IF i \in 1..Len(t) THEN t[i] ELSE "EOF"

\* lines 283-284: a fence (three backticks), an optional c and white space,
\* at the start of a line of the text
RECURSIVE StripOpeningFences(_, _)
StripOpeningFences(t, i) ==
    IF i > Len(t) THEN <<>>
    ELSE IF t[i] = "FENCE" /\ (i = 1 \/ t[i - 1] = NL)
    THEN StripOpeningFences(t, SkipWs(t, IF At(t, i + 1) = "c"
                                         THEN i + 2 ELSE i + 1))
    ELSE <<t[i]>> \o StripOpeningFences(t, i + 1)

\* line 285: a fence and white space up to the end of a line, which is the
\* end of the text or the place before a newline
RECURSIVE StripClosingFences(_, _)
StripClosingFences(t, i) ==
    IF i > Len(t) THEN <<>>
    ELSE IF t[i] = "FENCE"
    THEN LET after == SkipWs(t, i + 1) IN
         IF after > Len(t) THEN <<>>
         ELSE IF after > i + 1 THEN StripClosingFences(t, after - 1)
         ELSE <<t[i]>> \o StripClosingFences(t, i + 1)
    ELSE <<t[i]>> \o StripClosingFences(t, i + 1)

strip_markdown(t) == StripClosingFences(StripOpeningFences(t, 1), 1)

\* lines 288-292: TEST_ASSERT_EQUAL_FLOAT\s*\(\s*([^,]+)\s*,\s*([^)]+)\s*\)
\* matched at position i: c is the first comma, p the first closing
\* parenthesis after it, both groups non-empty; 0 when there is no match
FloatMatchEnd(t, i) ==
    IF At(t, i) = "TEST_ASSERT_EQUAL_FLOAT" /\ At(t, i + 1) = "("
    THEN LET c == FirstAt(t, i + 2, {","}) IN
         IF c < i + 3 THEN 0
         ELSE LET p == FirstAt(t, c + 1, {")"}) IN
              IF p < c + 2 THEN 0 ELSE p
    ELSE 0

\* TEST_ASSERT_FLOAT_WITHIN(0.01f, \1, \2)
FloatReplacement(t, i) ==
    LET c == FirstAt(t, i + 2, {","})
        p == FloatMatchEnd(t, i)
    IN <<"TEST_ASSERT_FLOAT_WITHIN", "(", "0.01f", ",">>
           \o SubSeq(t, i + 2, c - 1) \o <<",">>
           \o SubSeq(t, c + 1, p - 1) \o <<")">>

RECURSIVE FixFloatFrom(_, _)
FixFloatFrom(t, i) ==
    IF i > Len(t) THEN <<>>
    ELSE IF FloatMatchEnd(t, i) > 0
    THEN FloatReplacement(t, i) \o FixFloatFrom(t, FloatMatchEnd(t, i) + 1)
    ELSE <<t[i]>> \o FixFloatFrom(t, i + 1)

fix_float_assertions(t) == FixFloatFrom(t, 1)

\* lines 295-298, in their order
MacroName(tok) ==
    CASE tok = "TEST_ASSERT_GREATER_THAN_EQUAL_INT"
             -> "TEST_ASSERT_GREATER_OR_EQUAL_INT"
      [] tok = "TEST_ASSERT_LESS_THAN_EQUAL_INT"
             -> "TEST_ASSERT_LESS_OR_EQUAL_INT"
      [] tok = "TEST_ASSERT_GREATER_THAN_INT"
             -> "TEST_ASSERT_GREATER_OR_EQUAL_INT"
      [] tok = "TEST_ASSERT_LESS_THAN_INT"
             -> "TEST_ASSERT_LESS_OR_EQUAL_INT"
      [] OTHER -> tok

fix_macro_names(t) == [k \in 1..Len(t) |-> MacroName(t[k])]

\* the tokens that -\d+\.?\d*f?\b takes after the minus sign
Numbers == {"273.15", "5", "40.0f", "0.0f", "1000.0f", "0.01f"}

\* lines 301-302: -273\.15f? becomes -40.0f, 1e10+ becomes 1000.0f
RECURSIVE FixImpossibleFrom(_, _)
FixImpossibleFrom(t, i) ==
    IF i > Len(t) THEN <<>>
    ELSE IF t[i] = "-" /\ At(t, i + 1) = "273.15"
    THEN <<"-", "40.0f">> \o FixImpossibleFrom(t, i + 2)
    ELSE IF t[i] = "1e10"
    THEN <<"1000.0f">> \o FixImpossibleFrom(t, i + 1)
    ELSE <<t[i]>> \o FixImpossibleFrom(t, i + 1)

fix_impossible_values(t) == FixImpossibleFrom(t, 1)

\* line 305: a minus sign and the number after it become 0.0f
RECURSIVE FixNegativeFrom(_, _)
FixNegativeFrom(t, i) ==
    IF i > Len(t) THEN <<>>
    ELSE IF t[i] = "-" /\ At(t, i + 1) \in Numbers
    THEN <<"0.0f">> \o FixNegativeFrom(t, i + 2)
    ELSE <<t[i]>> \o FixNegativeFrom(t, i + 1)

fix_negative_values(t) == FixNegativeFrom(t, 1)

\* line 308: \bmain\s*\(\s*\)\s*;
RECURSIVE RemoveMainCalls(_, _)
RemoveMainCalls(t, i) ==
    IF i > Len(t) THEN <<>>
    ELSE IF /\ t[i] = "main"
            /\ At(t, i + 1) = "("
            /\ At(t, i + 2) = ")"
            /\ At(t, i + 3) = ";"
    THEN RemoveMainCalls(t, i + 4)
    ELSE <<t[i]>> \o RemoveMainCalls(t, i + 1)

\* line 310: int\s+main\s*\([^)]*\)\s*{[^}]*} matched at position i: up to
\* the first closing brace; 0 when there is no match
MainMatchEnd(t, i) ==
    IF At(t, i) = "int" /\ At(t, i + 1) = "main" /\ At(t, i + 2) = "("
    THEN LET p == FirstAt(t, i + 3, {")"}) IN
         IF p = 0 \/ At(t, SkipWs(t, p + 1)) # "{" THEN 0
         ELSE FirstAt(t, SkipWs(t, p + 1) + 1, {"}"})
    ELSE 0

RECURSIVE RemoveMainDefinitions(_, _)
RemoveMainDefinitions(t, i) ==
    IF i > Len(t) THEN <<>>
    ELSE IF MainMatchEnd(t, i) > 0
    THEN RemoveMainDefinitions(t, MainMatchEnd(t, i) + 1)
    ELSE <<t[i]>> \o RemoveMainDefinitions(t, i + 1)

remove_main(t) == RemoveMainDefinitions(RemoveMainCalls(t, 1), 1)

\* lines 313-314: printf\s*\([^;]*\);\s* matched at position i: the first
\* semicolon has to follow a closing parenthesis; 0 when there is no match
IoMatchEnd(t, i, name) ==
    IF At(t, i) = name /\ At(t, i + 1) = "("
    THEN LET s == FirstAt(t, i + 2, {";"}) IN
         IF s = 0 \/ s < i + 3 \/ t[s - 1] # ")" THEN 0
         ELSE SkipWs(t, s + 1) - 1
    ELSE 0

RECURSIVE RemoveIo(_, _, _)
RemoveIo(t, i, name) ==
    IF i > Len(t) THEN <<>>
    ELSE IF IoMatchEnd(t, i, name) > 0
    THEN RemoveIo(t, IoMatchEnd(t, i, name) + 1, name)
    ELSE <<t[i]>> \o RemoveIo(t, i + 1, name)

remove_debug_io(t) == RemoveIo(RemoveIo(t, 1, "printf"), 1, "scanf")

\* test_code.split('\n')
RECURSIVE SplitLines(_, _, _)
SplitLines(t, i, line) ==
    IF i > Len(t) THEN <<line>>
    ELSE IF t[i] = NL THEN <<line>> \o SplitLines(t, i + 1, <<>>)
    ELSE SplitLines(t, i + 1, Append(line, t[i]))

\* '\n'.join(lines)
RECURSIVE JoinLines(_)
JoinLines(lines) ==
    IF lines = <<>> THEN <<>>
    ELSE IF Len(lines) = 1 THEN lines[1]
    ELSE lines[1] \o <<NL>> \o JoinLines(Tail(lines))

\* the header tokens of the model and the name inside their delimiters
HeaderNames == {"unity.h", "sensor.h", "main.h", "vector"}

Quoted(h) == <<"dq", h, "dq">>

Angled(h) == <<"<", h, ">">>

UnityInclude == <<"#include">> \o Quoted("unity.h")

\* header_name.endswith('.h')
EndsWithH(h) == h \in {"unity.h", "sensor.h", "main.h"}

\* re.match(r'#include\s+["<]([^">]+)[">]', line): any of the two
\* delimiters opens and closes
IncludeMatches(line) ==
    /\ Len(line) >= 4
    /\ line[1] = "#include"
    /\ line[2] \in {"dq", "<"}
    /\ line[3] \notin {"dq", ">"}
    /\ line[4] \in {"dq", ">"}

\* lines 321-338: whether the loop keeps the line
KeepsLine(line, includes) ==
    IF Contains(line, UnityInclude) THEN TRUE
    ELSE IF Len(line) > 0 /\ line[1] = "#include"
    THEN /\ IncludeMatches(line)
         /\ (line[3] \in includes \/ EndsWithH(line[3]))
         /\ ~(line[3] = "main.h" /\ "main.h" \notin includes)
    ELSE TRUE

\* lines 317-338
filter_includes(t, includes) ==
    JoinLines(SelectSeq(SplitLines(t, 1, <<>>),
                        LAMBDA line : KeepsLine(line, includes)))

\* lines 340-343, on the joined text
ensure_unity(t) ==
    LET lines == SplitLines(t, 1, <<>>) IN
    IF \E k \in 1..Len(lines) : Contains(lines[k], UnityInclude)
    THEN t
    ELSE JoinLines(<<UnityInclude>> \o lines)

\* line 347: re.findall(r'void\s+(test_\w+)\s*\(', text), from position i
TestNames == {"test_a", "test_b"}

RECURSIVE FindTests(_, _)
FindTests(t, i) ==
    IF i > Len(t) THEN <<>>
    ELSE IF /\ t[i] = "void"
            /\ At(t, i + 1) \in TestNames
            /\ At(t, SkipWs(t, i + 2)) = "("
    THEN <<t[i + 1]>> \o FindTests(t, SkipWs(t, i + 2) + 1)
    ELSE FindTests(t, i + 1)

RECURSIVE RunTestLines(_)
RunTestLines(names) ==
    IF names = <<>> THEN <<>>
    ELSE <<"RUN_TEST", "(", Head(names), ")", ";", NL>>
             \o RunTestLines(Tail(names))

\* lines 350-354
main_function(names) ==
    <<NL, NL, "int", "main", "(", "void", ")", "{", NL,
      "UNITY_BEGIN", "(", ")", ";", NL, NL>>
        \o RunTestLines(names)
        \o <<NL, "return", "UNITY_END", "(", ")", ";", NL, "}">>

\* lines 345-358
add_main(t) ==
    IF FindTests(t, 1) = <<>> THEN t
    ELSE t \o main_function(FindTests(t, 1))

\* _post_process_test_code, lines 280-360
_post_process_test_code(t, includes) ==
    add_main(
      ensure_unity(
        filter_includes(
          remove_debug_io(
            remove_main(
              fix_negative_values(
                fix_impossible_values(
                  fix_macro_names(
                    fix_float_assertions(
                      strip_markdown(t))))))),
          includes)))

MaxPieces == 3       \* pieces of text in one backend response

\* the pieces a backend response is made of
Pieces ==
    { <<"FENCE", "c", NL>>,
      <<"FENCE">>,
      <<"TEST_ASSERT_EQUAL_FLOAT", "(", "a", ",", "b", ")", ";", NL>>,
      <<"TEST_ASSERT_EQUAL_FLOAT", "(", "a", ")", ";", NL>>,
      <<"-", "273.15">>,
      <<"-">>,
      <<"5", ";", NL>>,
      <<"main", "(", ")", ";", NL>>,
      <<"int", "main", "(", "void", ")", "{",
        "RUN_TEST", "(", "test_a", ")", ";", "}", NL>>,
      <<"printf", "(", "a", ")", ";", NL>>,
      UnityInclude \o <<NL>>,
      <<"#include">> \o Quoted("main.h") \o <<NL>>,
      <<"//">> \o UnityInclude \o <<NL>>,
      <<"void", "test_a", "(", "void", ")", ";", NL>>,
      <<"void", "test_a", "(", "void", ")", "{", "}", NL>>,
      <<"void", "test_b", "(", "void", ")", "{", "}", NL>> }

RECURSIVE Concat(_)
Concat(parts) ==
    IF parts = <<>> THEN <<>> ELSE Head(parts) \o Concat(Tail(parts))

\* generator.py:147-148: the response of the backend is post-processed
PostProcess ==
    /\ ppc = "response"
    /\ test_code' = _post_process_test_code(raw_text, source_includes)
    /\ first_output' = _post_process_test_code(raw_text, source_includes)
    /\ ppc' = "returned"
    /\ UNCHANGED <<raw_text, source_includes, validatorVars, stubVars,
                   orchVars, cliVars, mapVars, navVars>>

\* the post-processing is run again on what it returned
PostProcessAgain ==
    /\ ppc = "returned"
    /\ test_code' = _post_process_test_code(test_code, source_includes)
    /\ ppc' = "returned_again"
    /\ UNCHANGED <<raw_text, source_includes, first_output, validatorVars,
                   stubVars, orchVars, cliVars, mapVars, navVars>>

InitPost ==
    /\ raw_text \in {Concat(parts) : parts \in SeqsUpTo(Pieces, MaxPieces)}
    /\ source_includes \in {{}, {"main.h"}}
    /\ test_code = raw_text
    /\ ppc = "response"
    /\ first_output = <<>>
    /\ IdleValidator
    /\ IdleStubs
    /\ IdleOrch
    /\ IdleCli
    /\ IdleMap
    /\ IdleNav

NextPost == PostProcess \/ PostProcessAgain

SpecPost == InitPost /\ [][NextPost]_vars

(***************************************************************************)
(* generator.py: build_dependency_map.  What find_all_c_files and          *)
(* _extract_functions of the analyzer return is drawn at the start.        *)
(***************************************************************************)
MaxMapFiles == 3     \* files that the scanner finds
MaxMapFuncs == 2     \* functions extracted from one file

MapPaths == {"sensor.c", "adc.c", "main.c"}

MapNames == {"read_temp", "init"}

\* the scanner yields each path once; a file may define a name twice
ScannedFiles ==
    {files \in SeqsUpTo([path : MapPaths,
                         functions : SeqsUpTo(MapNames, MaxMapFuncs)],
                        MaxMapFiles) :
        \A j, k \in 1..Len(files) : j # k => files[j].path # files[k].path}

\* a name that is already in the map keeps its file
RecordFunctions_first_wins(map, path, functions) ==
    [n \in DOMAIN map \cup Range(functions) |->
        IF n \in DOMAIN map THEN map[n] ELSE path]

\* lines 112-113: dependency_map[func['name']] = file_path
RecordFunctions(map, path, functions) ==
    [n \in DOMAIN map \cup Range(functions) |->
        IF n \in Range(functions) THEN path ELSE map[n]]

\* lines 110-113: one turn of the loop over the files
MapFile ==
    /\ mpc = "scan"
    /\ scan_idx <= Len(all_c_files)
    /\ building_map' = RecordFunctions(building_map,
                                       all_c_files[scan_idx].path,
                                       all_c_files[scan_idx].functions)
    /\ scan_idx' = scan_idx + 1
    /\ UNCHANGED <<all_c_files, mpc, validatorVars, stubVars, orchVars,
                   cliVars, postVars, navVars>>

\* lines 115-116
MapReturn ==
    /\ mpc = "scan"
    /\ scan_idx > Len(all_c_files)
    /\ mpc' = "returned"
    /\ UNCHANGED <<all_c_files, building_map, scan_idx, validatorVars,
                   stubVars, orchVars, cliVars, postVars, navVars>>

\* lines 105-108
InitMap ==
    /\ all_c_files \in ScannedFiles
    /\ building_map = <<>>
    /\ scan_idx = 1
    /\ mpc = "scan"
    /\ IdleValidator
    /\ IdleStubs
    /\ IdleOrch
    /\ IdleCli
    /\ IdlePost
    /\ IdleNav

NextMap == MapFile \/ MapReturn

SpecMap == InitMap /\ [][NextMap]_vars

(***************************************************************************)
(* navigator.py: CodeNavigator.  The repository does not change; what      *)
(* os.walk and _extract_functions of the analyzer return for it is drawn   *)
(* at the start.  An Optional value is a sequence of length 0 or 1.        *)
(***************************************************************************)
MaxNavFiles == 2     \* .c files of the repository
MaxNavFuncs == 2     \* functions extracted from one file

NavPaths == {"sensor.c", "drivers/adc.c"}

NavNames == {"read_temp", "init", "missing"}

\* "missing" is defined by no file
NavRepos ==
    {files \in SeqsUpTo([path : NavPaths,
                         functions : SeqsUpTo(NavNames \ {"missing"},
                                              MaxNavFuncs)],
                        MaxNavFiles) :
        \A j, k \in 1..Len(files) : j # k => files[j].path # files[k].path}

\* lines 37-42
DefinitionResult(name, path) ==
    [name |-> name, file |-> path, line |-> "unknown"]

\* lines 33-46: the loop over the files and over the functions of each file,
\* from file i on
RECURSIVE ScanDefinition(_, _, _)
ScanDefinition(all_files, name, i) ==
    IF i > Len(all_files) THEN <<>>
    ELSE IF \E k \in 1..Len(all_files[i].functions) :
                all_files[i].functions[k] = name
    THEN <<DefinitionResult(name, all_files[i].path)>>
    ELSE ScanDefinition(all_files, name, i + 1)

\* every lookup is remembered, a miss too
StoreDefinition_always(cache, name, found) ==
    [n \in DOMAIN cache \cup {name} |->
        IF n = name THEN found ELSE cache[n]]

\* line 43 is inside the loop: only a match is stored
StoreDefinition(cache, name, found) ==
    IF found = <<>> THEN cache
    ELSE [n \in DOMAIN cache \cup {name} |->
             IF n = name THEN found ELSE cache[n]]

\* find_function_definition, lines 22-46
FindFunctionDefinition ==
    /\ npc \in {"ready", "definition", "functions", "raised"}
    /\ \E name \in NavNames :
           /\ function_name' = name
           /\ IF name \in DOMAIN function_cache
              THEN /\ nav_result' = function_cache[name]
                   /\ nav_scanned' = FALSE
                   /\ UNCHANGED function_cache
              ELSE LET found == ScanDefinition(repo_c_files, name, 1)
                   IN /\ nav_result' = found
                      /\ nav_scanned' = TRUE
                      /\ function_cache' =
                             StoreDefinition(function_cache, name, found)
    /\ npc' = "definition"
    /\ UNCHANGED <<repo_c_files, file_cache, nav_path, validatorVars,
                   stubVars, orchVars, cliVars, postVars, mapVars>>

\* get_file_functions, lines 77-84: the class defines no
\* _get_functions_from_file (the statements after the return of line 98 are
\* unreachable and belong to no def), so line 82 raises AttributeError and
\* lines 83-84 are not run
GetFileFunctions ==
    /\ npc \in {"ready", "definition", "functions", "raised"}
    /\ \E path \in NavPaths :
           /\ nav_path' = path
           /\ IF path \in DOMAIN file_cache
              THEN /\ nav_result' = file_cache[path]
                   /\ npc' = "functions"
              ELSE /\ nav_result' = <<"AttributeError">>
                   /\ npc' = "raised"
    /\ nav_scanned' = FALSE
    /\ UNCHANGED <<repo_c_files, function_cache, file_cache, function_name,
                   validatorVars, stubVars, orchVars, cliVars, postVars,
                   mapVars>>

\* __init__, lines 16-20
InitNav ==
    /\ repo_c_files \in NavRepos
    /\ function_cache = <<>>
    /\ file_cache = <<>>
    /\ function_name = "None"
    /\ nav_path = "None"
    /\ nav_result = <<>>
    /\ nav_scanned = FALSE
    /\ npc = "ready"
    /\ IdleValidator
    /\ IdleStubs
    /\ IdleOrch
    /\ IdleCli
    /\ IdlePost
    /\ IdleMap

NextNav == FindFunctionDefinition \/ GetFileFunctions

SpecNav == InitNav /\ [][NextNav]_vars

(***************************************************************************)
(* Claims on the quality rating.                                           *)
(***************************************************************************)

\* C1: for every issue count n and every pair of flags, the rating is High
\* exactly when n = 0 and compiles and realistic, Medium exactly when it is
\* not High and n <= 2 and compiles, and Low in every other case.
C1_QualityRating ==
    vpc = "done" =>
        LET r == validation_result
            n == Len(r.issues)
            high == n = 0 /\ r.compiles /\ r.realistic
            medium == ~high /\ n <= 2 /\ r.compiles
        IN /\ (r.quality = "High") <=> high
           /\ (r.quality = "Medium") <=> medium
           /\ (r.quality = "Low") <=> (~high /\ ~medium)

\* a rated result that is Medium although it is not realistic
C1_Witness ==
    /\ vpc = "done"
    /\ validation_result.quality = "Medium"
    /\ ~validation_result.realistic
    /\ Len(validation_result.issues) = 2

\* the issues that come with compiles = false
CompileTags == {"markdown", "unity", "invalid_include", "mismatch",
                "duplicate", "main_call"}

RatedNotCompiling ==
    /\ vpc = "done"
    /\ ~validation_result.compiles
    /\ Range(validation_result.issues) \subseteq CompileTags

\* C2 as stated: with compiles = false and no other issues the quality is
\* Medium when there are at most 2 issues and Low otherwise, never High.
C2_AsStated ==
    RatedNotCompiling =>
        /\ validation_result.quality # "High"
        /\ validation_result.quality =
               IF Len(validation_result.issues) <= 2 THEN "Medium" ELSE "Low"

\* C2 as amended: a validation that ends with compiles = false is rated Low
\* whatever the issue count; compiles = false yields neither High nor Medium.
C2_NotCompilingIsLow ==
    (vpc = "done" /\ ~validation_result.compiles) =>
        validation_result.quality = "Low"

\* the rating function has rated a non-compiling result of at most 2 issues
C2_Witness ==
    /\ RatedNotCompiling
    /\ Len(validation_result.issues) \in 1..2

(***************************************************************************)
(* Claims on the stub classification.                                      *)
(***************************************************************************)

\* C3: a called function is put in functions_that_need_stubs if and only if
\* it is not defined in the file, it is a key of the dependency map and the
\* map's file differs from the file; nothing else is put there.
C3_StubClassification ==
    spc = "classified" =>
        /\ \A c \in Range(analysis.called_functions) :
               c \in Range(functions_that_need_stubs) <=>
                   /\ c \notin Range(analysis.functions)
                   /\ c \in DOMAIN dependency_map
                   /\ dependency_map[c] # file_path
        /\ Range(functions_that_need_stubs)
               \subseteq Range(analysis.called_functions)

\* one called name is stubbed, one is absent from the map, and one is
\* defined in the file although the map gives it to another file
C3_Witness ==
    /\ spc = "classified"
    /\ functions_that_need_stubs # <<>>
    /\ \E c \in Range(analysis.called_functions) :
           c \notin DOMAIN dependency_map
    /\ \E c \in Range(analysis.called_functions) :
           /\ c \in Range(analysis.functions)
           /\ c \in DOMAIN dependency_map
           /\ dependency_map[c] # file_path

(***************************************************************************)
(* Claims on the orchestrator.                                             *)
(***************************************************************************)

\* the messages whose lower-cased text holds one of the fixed keywords
RateLimitClass ==
    {e \in ErrorMessages :
        \E keyword \in RateLimitKeywords : Contains(Lower(e), keyword)}

\* this step makes a backend call after an earlier one of the same request
AnotherCall == calls # <<>> /\ Len(calls') = Len(calls) + 1

\* the latest call of the request went to the current backend
LastCallOnCurrent == calls # <<>> /\ calls[Len(calls)] = current_model_name

\* C4 as stated: a backend call is followed by another backend call only if
\* the error it raised is rate-limit-class, whichever backend was called.
C4_AsStated ==
    [][AnotherCall => last_call_error \in RateLimitClass]_vars

\* C4 as amended: a call to the current backend is followed by another
\* backend call (a retry or the first fallback) only if the error it raised
\* is rate-limit-class, and only such an error is followed by a sleep; an
\* error raised that is not rate-limit-class is the error of the latest
\* call, made to the current backend before any fallback was tried.
C4_RetryOnlyOnRateLimit ==
    /\ [][/\ ((AnotherCall /\ LastCallOnCurrent)
                  => (last_call_error \in RateLimitClass))
           /\ ((sleeps' # sleeps /\ sleeps' # <<>>)
                  => (last_call_error' \in RateLimitClass))]_vars
    /\ []((opc = "raised" /\ raised \notin RateLimitClass)
             => (/\ raised = last_call_error
                 /\ LastCallOnCurrent
                 /\ tried = <<>>
                 /\ Len(sleeps) = Len(calls) - 1))

\* a rate-limited attempt was retried and the retry raised another error
C4_Witness ==
    /\ opc = "raised"
    /\ raised \notin RateLimitClass
    /\ Len(calls) = 2
    /\ Len(sleeps) = 1

\* C5: when a fallback backend answers it becomes the current backend (name
\* and model object), and the first call of every later request goes to the
\* latest fallback backend that answered.
C5_StickySwitch ==
    [][/\ (switched_to' # switched_to)
              => (/\ current_model_name' = switched_to'
                  /\ model' = switched_to')
       /\ (calls = <<>> /\ calls' # <<>> /\ switched_to # "None")
              => (calls'[1] = switched_to)]_vars

\* a request after a switch away from the first backend has made its first call
C5_Witness ==
    /\ switched_to \notin {"None", models_to_try[1]}
    /\ tried = <<>>
    /\ calls # <<>>
    /\ calls[1] = switched_to

\* b follows a in the preference list
Follows(a, b) ==
    \E k \in 1..(Len(models_to_try) - 1) :
        models_to_try[k] = a /\ models_to_try[k + 1] = b

\* C6 as stated: the first backend tried after the retries are exhausted is
\* the one that follows the current backend in the preference list.
C6_AsStated == tried # <<>> => Follows(original_model, tried[1])

\* the preference list without the backend that just failed
Candidates(original) ==
    SelectSeq(models_to_try, LAMBDA m : m # original)

\* C6 as amended: the fallback backends are tried in the order of the
\* preference list from its head, the current backend alone being skipped;
\* the first one tried is the head of the list, or the second name when the
\* current backend is the head.
C6_FallbackOrder ==
    tried # <<>> =>
        /\ tried = SubSeq(Candidates(original_model), 1, Len(tried))
        /\ tried[1] = IF original_model = models_to_try[1]
                       THEN models_to_try[2] ELSE models_to_try[1]

\* after a sticky switch to the third backend, the fallback starts at the head
C6_Witness ==
    /\ switched_to = models_to_try[3]
    /\ original_model = switched_to
    /\ tried # <<>>
    /\ tried[1] = models_to_try[1]

\* C7: when every backend has failed, the error raised is the error of the
\* last backend call made in the request.
C7_LastErrorRaised ==
    (opc = "raised" /\ fallback_idx > Len(models_to_try)) =>
        raised = last_call_error

\* C8: when the backend request raises, generate_tests_for_file returns
\* {success: False, error: <message>} and writes no test file; a test file
\* is written only by a request that returns {success: True}; an exception
\* leaves the function only before the backend request.
C8_FailureIsReturned ==
    /\ (opc = "returned" /\ raised # NoError)
           => (/\ gen_result = [success |-> FALSE, test_file |-> "",
                                 error |-> raised]
               /\ wrote = "no")
    /\ (opc = "raised") => (wrote = "no")
    /\ (wrote = "complete")
           => (/\ opc = "returned"
               /\ gen_result.success
               /\ gen_result.test_file \in test_files)
    /\ (opc = "propagated") => (calls = <<>> /\ raised = NoError)

\* every backend failed, after an earlier request had saved its test file
C8_Witness ==
    /\ opc = "returned"
    /\ raised \in RateLimitClass
    /\ Len(calls) > max_retries
    /\ ~gen_result.success
    /\ test_files # {}

(***************************************************************************)
(* Claims on the generate command.                                         *)
(***************************************************************************)

InputError ==
    \/ ~repo_exists
    \/ ~source_exists
    \/ \A k \in 1..Len(tree) : tree[k].name \notin {"sensor.c", "adc.c", "sensor.h"}
    \/ (api_key_arg = "" /\ env_key = "")

\* C10: on an input error the command returns a non-zero status, and at no
\* point of the run has the generator been constructed, a backend been
\* called, the output directory been made or an output file been written.
C10_InputErrorsAbort ==
    InputError =>
        /\ ~generator_built
        /\ ~backend_called
        /\ ~output_dir_made
        /\ test_files = {}
        /\ report_files = {}
        /\ cpc \in {"start", "exited"}
        /\ cpc = "exited" => exit_status # 0

\* the run has ended on a missing API key, with a .c file to work on
C10_Witness ==
    /\ cpc = "exited"
    /\ exit_status = 1
    /\ ~generator_built
    /\ api_key_arg = ""
    /\ env_key = ""
    /\ \E k \in 1..Len(tree) : IsCFile(tree[k])

\* the source directory holds no .c file
NoCFile == \A k \in 1..Len(tree) : ~IsCFile(tree[k])

\* C11: whenever the source directory holds no .c file, headers or not,
\* environment validation fails: the generator is never constructed, no
\* backend is called, the output directory is not made, nothing is written,
\* and the run exits with a non-zero status.
C11_NoCFileAborts ==
    NoCFile =>
        /\ cpc \in {"start", "exited"}
        /\ ~generator_built
        /\ ~backend_called
        /\ ~output_dir_made
        /\ test_files = {}
        /\ report_files = {}
        /\ cpc = "exited" => exit_status # 0

(***************************************************************************)
(* Claims on validate_test_file.                                           *)
(***************************************************************************)

\* the issue of the exception handler is in the list
Excepted ==
    \E k \in 1..Len(validation_result.issues) :
        validation_result.issues[k] = "validation_error"

\* this step leaves the try block before the rating was computed
ExceptionStep == vpc # "rate" /\ vpc' = "done"

\* C12: validate_test_file never raises: when the reading or one of the
\* four checks raises, the step returns the result with exactly one issue
\* appended to the issues recorded so far, compiles = false and quality =
\* Low; the result of an exception holds one such issue, as its last one,
\* and no check runs after the return.
C12_ExceptionIsAnIssue ==
    /\ [][/\ ExceptionStep =>
               /\ validation_result'.issues =
                      Append(validation_result.issues, "validation_error")
               /\ validation_result'.compiles = FALSE
               /\ validation_result'.quality = "Low"
               /\ validation_result'.realistic = validation_result.realistic
           /\ vpc # "done"]_vars
    /\ [](Excepted =>
             /\ vpc = "done"
             /\ validation_result.issues[Len(validation_result.issues)]
                    = "validation_error"
             /\ Cardinality({k \in 1..Len(validation_result.issues) :
                                validation_result.issues[k]
                                    = "validation_error"}) = 1
             /\ ~validation_result.compiles
             /\ validation_result.quality = "Low")

\* the logical-consistency check raised after the first check had recorded
\* an issue
C12_Witness ==
    /\ vpc = "done"
    /\ Excepted
    /\ Len(validation_result.issues) = 2
    /\ validation_result.issues[1] = "markdown"
    /\ validation_result.realistic

\* the issues that _check_reality_tests records, each with realistic = False
RealityTags == {"precision", "impossible", "temperature"}

\* a is a prefix of b
IsPrefix(a, b) == Len(a) <= Len(b) /\ a = SubSeq(b, 1, Len(a))

\* C13: within one validation, through the four checks in their order and
\* the exception handler, a flag that is false is never set back to true
\* and the issue list is only appended to; so the flag of every issue that
\* was recorded with a flag set to false is still false.
C13_FlagsMonotonic ==
    /\ [][/\ (~validation_result.compiles => ~validation_result'.compiles)
           /\ (~validation_result.realistic => ~validation_result'.realistic)
           /\ IsPrefix(validation_result.issues,
                       validation_result'.issues)]_vars
    /\ [](\A k \in 1..Len(validation_result.issues) :
             /\ (validation_result.issues[k] \in CompileTags
                    => ~validation_result.compiles)
             /\ (validation_result.issues[k] \in RealityTags
                    => ~validation_result.realistic))

\* compiles went false in the first check, realistic in the second, and
\* the two later checks ran without an issue
C13_Witness ==
    /\ vpc = "rate"
    /\ validation_result.issues = <<"unity", "temperature">>
    /\ ~validation_result.compiles
    /\ ~validation_result.realistic

(***************************************************************************)
(* Claims on the post-processing.                                          *)
(***************************************************************************)

\* C14: the rewrite of exact-equality float assertions is idempotent: on
\* the response of the backend and on the text returned, applying it twice
\* gives the text that applying it once gives.
C14_FloatRewriteIdempotent ==
    /\ fix_float_assertions(fix_float_assertions(raw_text))
           = fix_float_assertions(raw_text)
    /\ fix_float_assertions(fix_float_assertions(test_code))
           = fix_float_assertions(test_code)

\* every step of the pipeline applied twice to t gives what it gives once
StepsIdempotentOn(t, includes) ==
    /\ strip_markdown(strip_markdown(t)) = strip_markdown(t)
    /\ fix_float_assertions(fix_float_assertions(t)) = fix_float_assertions(t)
    /\ fix_impossible_values(fix_impossible_values(t))
           = fix_impossible_values(t)
    /\ fix_negative_values(fix_negative_values(t)) = fix_negative_values(t)
    /\ remove_main(remove_main(t)) = remove_main(t)
    /\ remove_debug_io(remove_debug_io(t)) = remove_debug_io(t)
    /\ filter_includes(filter_includes(t, includes), includes)
           = filter_includes(t, includes)
    /\ ensure_unity(ensure_unity(t)) = ensure_unity(t)
    /\ add_main(add_main(t)) = add_main(t)

\* C15: every step of the post-processing is idempotent, on the response
\* of the backend and on the text returned, and the post-processing run on
\* its own output returns that output unchanged.
C15_PipelineIdempotent ==
    /\ StepsIdempotentOn(raw_text, source_includes)
    /\ StepsIdempotentOn(test_code, source_includes)
    /\ ppc = "returned_again" => test_code = first_output

\* how many times the token occurs in t
CountToken(t, tok) == Cardinality({k \in 1..Len(t) : t[k] = tok})

\* the names of the RUN_TEST lines of t, in their order
RECURSIVE RunTestNames(_, _)
RunTestNames(t, i) ==
    IF i > Len(t) THEN <<>>
    ELSE IF t[i] = "RUN_TEST" /\ At(t, i + 1) = "("
    THEN <<At(t, i + 2)>> \o RunTestNames(t, i + 1)
    ELSE RunTestNames(t, i + 1)

\* the names of a list in the order of their first occurrence
RECURSIVE Distinct(_)
Distinct(names) ==
    IF names = <<>> THEN <<>>
    ELSE LET front == Distinct(SubSeq(names, 1, Len(names) - 1))
             last == names[Len(names)]
         IN IF last \in Range(front) THEN front ELSE Append(front, last)

\* C16: when the text returned holds a test function, it holds one runner,
\* with one UNITY_BEGIN and one UNITY_END, whose RUN_TEST lines name each
\* distinct discovered void test_* function once, in discovery order, also
\* when a test function is declared before it is defined or the response
\* came with a main runner of its own.
C16_RunnerOnce ==
    (ppc = "returned" /\ FindTests(test_code, 1) # <<>>) =>
        /\ CountToken(test_code, "UNITY_BEGIN") = 1
        /\ CountToken(test_code, "UNITY_END") = 1
        /\ CountToken(test_code, "main") = 1
        /\ RunTestNames(test_code, 1) = Distinct(FindTests(test_code, 1))
        /\ \A k \in 1..Len(test_code) :
               test_code[k] = "RUN_TEST" =>
                   /\ FirstAt(test_code, 1, {"UNITY_BEGIN"}) < k
                   /\ k < FirstAt(test_code, 1, {"UNITY_END"})

\* the line is #include "unity.h"
IsUnityLine(line) == Len(line) >= 4 /\ SubSeq(line, 1, 4) = UnityInclude

HasUnityLine(t) ==
    \E k \in 1..Len(SplitLines(t, 1, <<>>)) :
        IsUnityLine(SplitLines(t, 1, <<>>)[k])

\* C17: the text returned holds the line #include "unity.h"; when the
\* response of the backend held no such line, it is the first line of the
\* text returned.
C17_UnityIncluded ==
    ppc = "returned" =>
        /\ HasUnityLine(test_code)
        /\ ~HasUnityLine(raw_text)
               => IsUnityLine(SplitLines(test_code, 1, <<>>)[1])

(***************************************************************************)
(* Claims on the reality and consistency checks.                           *)
(***************************************************************************)

\* how many issues of the result carry the tag
CountIssues(r, tag) ==
    Cardinality({k \in 1..Len(r.issues) : r.issues[k] = tag})

\* the test file holds a TEST_ASSERT_EQUAL_FLOAT assertion, no
\* TEST_ASSERT_FLOAT_WITHIN, and nothing else the reality check looks for
OnlyEqualFloat(c) ==
    /\ c.equal_float = "call"
    /\ ~c.float_within
    /\ c.impossible = 0
    /\ ~c.temperature

\* C18: when the test file holds one TEST_ASSERT_EQUAL_FLOAT assertion and
\* no TEST_ASSERT_FLOAT_WITHIN, the reality check sets realistic to false
\* and adds exactly one precision issue.
C18_OnePrecisionIssue ==
    [][(vpc = "reality" /\ vpc' = "quality") =>
          \A c \in RealityFindings :
              (/\ OnlyEqualFloat(c)
               /\ validation_result'
                      = _check_reality_tests(validation_result, c))
              => (/\ ~validation_result'.realistic
                  /\ CountIssues(validation_result', "precision")
                         = CountIssues(validation_result, "precision") + 1)]_vars

\* the sections that the consistency check was run on in this step
LogicStepOn(sections, u) ==
    /\ vpc = "logic"
    /\ vpc' = "rate"
    /\ validation_result'
           = _verify_logical_consistency(validation_result, sections, u)

\* the expression is the subject of a true-assertion and of a
\* false-assertion of the file
AssertedBothWays(sections, e) ==
    /\ \E k \in 1..Len(sections) : e \in sections[k].true_vars
    /\ \E k \in 1..Len(sections) : e \in sections[k].false_vars

\* the sections that hold both assertions on the expression
SectionsWithBoth(sections, e) ==
    {k \in 1..Len(sections) :
        e \in sections[k].true_vars \cap sections[k].false_vars}

\* C19 as stated: a file with a true-assertion and a false-assertion on
\* flag_x gets exactly one contradiction issue, in whichever test functions
\* the two assertions are.
C19_AsStated ==
    [][\A sections \in SeqsUpTo(Sections, MaxSections), u \in BOOLEAN :
           (LogicStepOn(sections, u) /\ AssertedBothWays(sections, "flag_x"))
           => (CountIssues(validation_result', "contradiction") = 1)]_vars

\* C19 as amended: the check reports one contradiction issue for each test
\* function that holds both the true-assertion and the false-assertion on
\* flag_x, and none when the two are in different test functions.
C19_ContradictionPerSection ==
    [][\A sections \in SeqsUpTo(Sections, MaxSections), u \in BOOLEAN :
           LogicStepOn(sections, u)
           => (CountIssues(validation_result', "contradiction")
                  = Cardinality(SectionsWithBoth(sections, "flag_x")))]_vars

\* the check has reported the contradiction of one test function
C19_Witness ==
    /\ vpc = "rate"
    /\ CountIssues(validation_result, "contradiction") = 1

(***************************************************************************)
(* Claims on the dependency map.                                           *)
(***************************************************************************)

\* the positions of the scanned files whose functions hold the name
DefinedAt(n) ==
    {k \in 1..Len(all_c_files) : n \in Range(all_c_files[k].functions)}

\* C20: the keys of the map that build_dependency_map returns are exactly
\* the names extracted from the scanned files, and each name is mapped to
\* the last file, in scanner order, whose functions hold it.
C20_LastFileWins ==
    mpc = "returned" =>
        /\ DOMAIN building_map = {n \in MapNames : DefinedAt(n) # {}}
        /\ \A n \in DOMAIN building_map :
               \E k \in DefinedAt(n) :
                   /\ \A j \in DefinedAt(n) : j <= k
                   /\ building_map[n] = all_c_files[k].path

\* a name defined in two files is mapped to the later one
C20_Witness ==
    /\ mpc = "returned"
    /\ \E n \in DOMAIN building_map :
           \E j, k \in DefinedAt(n) :
               /\ j < k
               /\ building_map[n] = all_c_files[k].path
               /\ building_map[n] # all_c_files[j].path

(***************************************************************************)
(* Claims on the output files.                                             *)
(***************************************************************************)

\* C21: after a run in which every file succeeded, the output directory
\* holds one test file and one validation report per input .c file, also
\* when two input files of different directories have the same base name.
C21_OneTestFilePerInput ==
    (cpc = "exited" /\ exit_status = 0) =>
        /\ Cardinality(test_files) = Len(c_files)
        /\ Cardinality(report_files) = Len(c_files)

(***************************************************************************)
(* Claims on the backoff.                                                  *)
(***************************************************************************)

\* C24: the waits of a request on the current backend are 1, 3 and 7
\* seconds: the k-th sleep lasts 2^k - 1 seconds, each wait is longer than
\* the one before, and a sleep comes only after a rate-limited attempt on
\* the current backend that is followed by another attempt.
C24_BackoffSequence ==
    /\ \A k \in 1..Len(sleeps) : sleeps[k] = (2 ^ k) - 1
    /\ \A k \in 1..(Len(sleeps) - 1) : sleeps[k] < sleeps[k + 1]
    /\ Len(sleeps) <= max_retries - 1
    /\ tried # <<>> => Len(sleeps) = max_retries - 1
    /\ opc = "attempt" => Len(sleeps) = Len(calls)

\* C25: an absolute-zero literal of the response of the backend is replaced
\* by -40.0f, and -40.0f is what the text returned holds in its place.
C25_AbsoluteZeroBecomesMinimum ==
    (ppc = "returned" /\ Contains(raw_text, <<"-", "273.15">>)) =>
        /\ Contains(test_code, <<"-", "40.0f">>)
        /\ ~Contains(test_code, <<"-", "273.15">>)

(***************************************************************************)
(* Claims on the result of a validation.                                   *)
(***************************************************************************)

\* C26: at every point of a validation, a flag that is false comes with a
\* non-empty issue list; in the result returned, zero issues with compiles
\* = false does not occur and the quality is High exactly when the issue
\* list is empty.
C26_FalseFlagHasIssue ==
    /\ ~validation_result.compiles => validation_result.issues # <<>>
    /\ ~validation_result.realistic => validation_result.issues # <<>>
    /\ vpc = "done" =>
           (validation_result.quality = "High"
               <=> validation_result.issues = <<>>)

\* a result was returned with a single issue, that of a file that does not
\* compile
C26_Witness ==
    /\ vpc = "done"
    /\ ~validation_result.compiles
    /\ validation_result.realistic
    /\ Len(validation_result.issues) = 1
    /\ validation_result.issues[1] \in CompileTags
    /\ validation_result.quality = "Low"

\* C27: once a generator is constructed, the current backend name is one of
\* the entries of the backend list and the stored backend object is the one
\* built for that name; a step that changes one of the two changes the other
\* in the same step, to the same entry.
C27_ModelMatchesName ==
    opc \notin {"new", "no_model"} =>
        /\ current_model_name \in Range(models_to_try)
        /\ model = current_model_name

C27_Witness ==
    /\ opc = "responded"
    /\ tried # <<>>
    /\ current_model_name = tried[Len(tried)]
    /\ current_model_name # original_model
    /\ model = current_model_name

\* C29: a request leaves the current backend and its name as they were unless
\* a fallback call succeeded: the only steps that change either of them are
\* the construction and the successful fallback call, which installs the
\* backend that answered.
C29_BackendChangesOnlyOnFallbackSuccess ==
    [][(current_model_name' # current_model_name \/ model' # model) =>
          \/ opc = "new"
          \/ /\ opc = "fallback"
             /\ opc' = "responded"
             /\ fallback_idx \in 1..Len(models_to_try)
             /\ current_model_name' = models_to_try[fallback_idx]
             /\ model' = models_to_try[fallback_idx]]_vars

C29_Witness ==
    /\ opc = "returned"
    /\ raised # NoError
    /\ tried # <<>>
    /\ current_model_name = original_model
    /\ model = original_model

\* one backend request in progress: the steps of _try_generate_with_fallback,
\* lines 49-98
RequestStep ==
    \/ AttemptSucceeds
    \/ AttemptFails
    \/ FallbackSkip
    \/ FallbackUnavailable
    \/ FallbackFails
    \/ FallbackSucceeds
    \/ FallbackExhausted

\* the interpreter runs the loops of lines 49 and 78 to their end: a call to
\* a backend returns or raises
SpecOrchFair == InitOrch /\ [][NextOrch]_vars /\ WF_vars(RequestStep)

\* the calls of one request: the first call goes to the current backend
CallsWithinBudget ==
    /\ \A m \in Range(calls) :
           CountToken(calls, m) <= IF m = calls[1] THEN max_retries ELSE 1
    /\ Len(calls) <= max_retries + Len(models_to_try) - 1
    /\ Len(sleeps) <= max_retries - 1
    /\ \A k \in 1..Len(tried) : \A j \in 1..Len(tried) :
           (tried[k] = tried[j]) => (k = j)

\* C28: every backend request ends with a response or a raised error, after
\* at most max_retries calls to the current backend, at most one call to each
\* other backend of the list and at most max_retries - 1 sleeps.
C28_RequestTerminatesWithinBudget ==
    /\ [] CallsWithinBudget
    /\ (opc \in {"attempt", "fallback"}) ~> (opc \in {"responded", "raised"})

C28_Witness ==
    /\ opc = "raised"
    /\ CountToken(calls, calls[1]) = max_retries
    /\ Len(calls) = max_retries + Len(models_to_try) - 1
    /\ Len(sleeps) = max_retries - 1

\* the issues of _assess_test_quality and _verify_logical_consistency
LateTags ==
    {"edge_cases", "teardown_reset", "no_tests", "isolation",
     "contradiction", "unreasonable"}

\* C30: the quality-assessment step and the logical-consistency step leave
\* the compiles and realistic flags (and the rating) as they were and only
\* append issues to the list.
C30_LateChecksOnlyAppendIssues ==
    [][(vpc \in {"quality", "logic"} /\ vpc' \in {"logic", "rate"}) =>
          /\ validation_result'.compiles = validation_result.compiles
          /\ validation_result'.realistic = validation_result.realistic
          /\ validation_result'.quality = validation_result.quality
          /\ IsPrefix(validation_result.issues, validation_result'.issues)
          /\ \A k \in (Len(validation_result.issues) + 1)
                          ..Len(validation_result'.issues) :
                 validation_result'.issues[k] \in LateTags]_vars

C30_Witness ==
    /\ vpc = "rate"
    /\ validation_result.compiles
    /\ validation_result.realistic
    /\ Len(validation_result.issues) >= 2
    /\ Range(validation_result.issues) \subseteq LateTags

\* the files of the repository that define name, by position in scan order
DefiningFiles(name) ==
    {k \in 1..Len(repo_c_files) : name \in Range(repo_c_files[k].functions)}

\* what a scan of the repository without any cache answers for name
UncachedAnswer(name) ==
    IF DefiningFiles(name) = {} THEN <<>>
    ELSE LET first == CHOOSE k \in DefiningFiles(name) :
                          \A j \in DefiningFiles(name) : k <= j
         IN <<[name |-> name, file |-> repo_c_files[first].path,
               line |-> "unknown"]>>

\* what the cache holds is what an uncached scan answers, and never a miss
CacheAgrees ==
    /\ \A n \in DOMAIN function_cache :
           /\ function_cache[n] # <<>>
           /\ function_cache[n] = UncachedAnswer(n)
    /\ (npc = "definition") => (nav_result = UncachedAnswer(function_name))
    /\ (npc = "definition" /\ nav_result # <<>>) =>
           (function_name \in DOMAIN function_cache)

\* C22: on an unchanged repository every find_function_definition lookup
\* answers what an uncached scan answers (the first file in scan order that
\* defines the name, or nothing); a hit is stored and later served without
\* a scan, and a miss is never stored.
C22_CacheEquivalentToScan ==
    /\ [] CacheAgrees
    /\ [][(npc' = "definition" /\ function_name' \in DOMAIN function_cache)
             => (~nav_scanned' /\ function_cache' = function_cache)]_vars
    /\ [][(npc' = "definition"
             /\ function_name' \notin DOMAIN function_cache)
             => nav_scanned']_vars

C22_Witness ==
    /\ npc = "definition"
    /\ ~nav_scanned
    /\ function_name \in DOMAIN function_cache
    /\ nav_result = function_cache[function_name]
    /\ Cardinality(DefiningFiles(function_name)) = 2
    /\ "missing" \notin DOMAIN function_cache

\* C23: a request for the functions of a file ends without an error, and
\* afterwards the file cache holds the list of that file.
C23_FileFunctionsReadThrough ==
    /\ npc # "raised"
    /\ (npc = "functions") => (nav_path \in DOMAIN file_cache)

====
